---- MODULE Spec2Model ----
(***************************************************************************)
(* The Python binding of the binary KORE pattern codec                     *)
(* (bindings/python/ast.cpp): Pattern.serialize, Pattern.deserialize and   *)
(* the streaming reader Pattern.read_from (read_pattern_from_file).        *)
(*                                                                         *)
(* A byte is a number in 0..255, a byte string a sequence of bytes.  The   *)
(* file-like object is a byte string with a read cursor; its read(n)       *)
(* returns the next n bytes, or the bytes that remain when fewer than n    *)
(* are left (the contract of a Python binary file object: never more than  *)
(* n bytes, fewer only at the end of the data).                            *)
(*                                                                         *)
(* The library behind the binding (serializer, deserializer, read_version, *)
(* read_pattern_size_unchecked, detail::read, binary_version) is not part  *)
(* of bindings/python/ast.cpp; those definitions follow the format         *)
(* description and are marked as such where they are defined.              *)
(***************************************************************************)
EXTENDS Integers, Sequences, FiniteSets, TLC

VARIABLES
    frames,     \* what the producer writes into the file: frame descriptions
    nwritten,   \* how many of them have been written
    file,       \* the bytes held by the file-like object
    has_read,   \* whether the object has a "read" attribute
    pos,        \* the object's read cursor (bytes consumed so far)
    pc,         \* position of the session / of the running read_from call
    start,      \* the cursor when the running read_from call began
    reads,      \* the read(n) calls of the running call: [req, off, got]
    version,    \* local `version` of read_pattern_from_file
    size,       \* local `size` of read_pattern_from_file
    result,     \* the pattern the call returns
    error,      \* the exception the call throws
    calls,      \* the finished read_from calls, oldest first
    whole       \* outcome of Pattern.deserialize on the whole buffer

vars == <<frames, nwritten, file, has_read, pos, pc, start, reads, version,
          size, result, error, calls, whole>>

-----------------------------------------------------------------------------
(* Bounds of the model. *)

\* Nesting depth of the patterns that are serialized.
MaxDepth == 2

\* Number of read_from calls made on one file-like object.
MaxCalls == 2

-----------------------------------------------------------------------------
(* Small helpers. *)

Min(a, b) == IF a <= b THEN a ELSE b

RECURSIVE Concat(_)
Concat(seqs) == IF seqs = <<>> THEN <<>> ELSE Head(seqs) \o Concat(Tail(seqs))

\* s is a prefix of t
IsPrefix(s, t) == Len(s) <= Len(t) /\ SubSeq(t, 1, Len(s)) = s

\* least-significant byte first, k bytes
RECURSIVE LittleEndian(_, _)
LittleEndian(n, k) ==
    IF k = 0 THEN <<>> ELSE <<n % 256>> \o LittleEndian(n \div 256, k - 1)

RECURSIVE FromLittleEndian(_)
FromLittleEndian(bytes) ==
    IF bytes = <<>> THEN 0
    ELSE Head(bytes) + 256 * FromLittleEndian(Tail(bytes))

-----------------------------------------------------------------------------
(* The pattern tree: composite applications, variables, string literals.   *)
(* Names and string contents are one-byte references into a name table.    *)

StringPattern(contents) ==
    [kind |-> "string", name |-> contents, arguments |-> <<>>]

VariablePattern(name) ==
    [kind |-> "variable", name |-> name, arguments |-> <<>>]

CompositePattern(name, arguments) ==
    [kind |-> "composite", name |-> name, arguments |-> arguments]

\* "no pattern": what a failed call returns
NoPattern == [kind |-> "none", name |-> 0, arguments |-> <<>>]

\* the constructor of the raw-term wrapper that strip_raw_term removes
RawTermName == 3

IsRawTerm(p) ==
    p.kind = "composite" /\ p.name = RawTermName /\ Len(p.arguments) = 1

strip_raw_term(p) == IF IsRawTerm(p) THEN p.arguments[1] ELSE p

Leaves == {StringPattern(1), VariablePattern(2), CompositePattern(1, <<>>)}

RECURSIVE PatternsOfDepth(_)
PatternsOfDepth(d) ==
    IF d <= 1 THEN Leaves
    ELSE LET sub == PatternsOfDepth(d - 1)
         IN  sub
             \cup {CompositePattern(n, <<q>>) : n \in {2, RawTermName}, q \in sub}
             \cup {CompositePattern(4, <<a, b>>) :
                       a, b \in {StringPattern(1), VariablePattern(2)}}

Patterns == PatternsOfDepth(MaxDepth)

-----------------------------------------------------------------------------
(* Errors.  type is the C++ exception type thrown, what its message.       *)

NoError == [type |-> "none", what |-> ""]

TypeErrorNotFileLike ==
    [type |-> "type_error",
     what |-> "Argument to read_from is not a file-like object"]

BadHeaderError ==
    [type |-> "invalid_argument",
     what |-> "Data does not begin with the binary KORE header bytes"]

OldVersionErrorCopiedMessage ==
    [type |-> "invalid_argument",
     what |-> "Data does not begin with the binary KORE header bytes"]

OldVersionError ==
    [type |-> "invalid_argument",
     what |-> "Pattern read from a file-like object must use version 1.2.0 or newer"]

ZeroSizeError ==
    [type |-> "invalid_argument",
     what |-> "Pattern size must be set explicitly when reading from a file-like object"]

\* thrown by the decoding library on truncated or malformed bytes
FormatError(what) == [type |-> "FormatError", what |-> what]

-----------------------------------------------------------------------------
(* The binary format: framing constants.                                   *)

HeaderLen == 5
VersionLen == 6
SizeLen == 8

magic_header == <<127, 75, 79, 82, 69>>

\* binary_version(major, minor, patch)
binary_version(major, minor, patch) == <<major, minor, patch>>

\* the version the serializer writes
current_version == binary_version(1, 2, 0)

\* operator< of binary_version: major, then minor, then patch
VersionLess(a, b) ==
    \/ a[1] < b[1]
    \/ a[1] = b[1] /\ a[2] < b[2]
    \/ a[1] = b[1] /\ a[2] = b[2] /\ a[3] < b[3]

\* a signed 16-bit value as two bytes, and back
EmitInt16(v) == LittleEndian(IF v < 0 THEN v + 65536 ELSE v, 2)

ReadInt16(bytes) ==
    LET u == FromLittleEndian(bytes) IN IF u >= 32768 THEN u - 65536 ELSE u

EmitVersion(v) == EmitInt16(v[1]) \o EmitInt16(v[2]) \o EmitInt16(v[3])

-----------------------------------------------------------------------------
(* Serializer: tag byte per node kind, name reference, child count,        *)
(* children.                                                               *)

TagString == 1
TagVariable == 2
TagComposite == 3

RECURSIVE EmitPattern(_)
RECURSIVE EmitArguments(_)
EmitPattern(p) ==
    IF p.kind = "string" THEN <<TagString, p.name>>
    ELSE IF p.kind = "variable" THEN <<TagVariable, p.name>>
    ELSE <<TagComposite, p.name, Len(p.arguments)>> \o EmitArguments(p.arguments)

EmitArguments(args) ==
    IF args = <<>> THEN <<>>
    ELSE EmitPattern(Head(args)) \o EmitArguments(Tail(args))

\* serializer{}: header, version and a reserved, zero size field
serializer_init ==
    magic_header \o EmitVersion(current_version) \o LittleEndian(0, SizeLen)

FrameLen == HeaderLen + VersionLen + SizeLen

\* pattern.serialize_to(out)
serialize_to(pattern, out) == out \o EmitPattern(pattern)

\* out.correct_emitted_size(): back-patch the size field with the body length
correct_emitted_size(out) ==
    SubSeq(out, 1, HeaderLen + VersionLen)
        \o LittleEndian(Len(out) - FrameLen, SizeLen)
        \o SubSeq(out, FrameLen + 1, Len(out))

SerializeNeverPatches(pattern, emit_size) ==
    serialize_to(pattern, serializer_init)

\* Pattern.serialize(*, emit_size = false)
serialize(pattern, emit_size) ==
    LET out == serialize_to(pattern, serializer_init)
    IN  IF emit_size THEN correct_emitted_size(out) ELSE out

-----------------------------------------------------------------------------
(* Deserializer.  A decoding step returns [ok, value]; with ok false the   *)
(* value is the error thrown.                                              *)

Ok(v) == [ok |-> TRUE, value |-> v]
Bad(e) == [ok |-> FALSE, value |-> e]

\* detail::read_version: three 16-bit components
read_version(bytes) ==
    IF Len(bytes) < VersionLen THEN Bad(FormatError("truncated version"))
    ELSE Ok(binary_version(ReadInt16(SubSeq(bytes, 1, 2)),
                           ReadInt16(SubSeq(bytes, 3, 4)),
                           ReadInt16(SubSeq(bytes, 5, 6))))

\* detail::read_pattern_size_unchecked: the 8-byte size field
read_pattern_size_unchecked(bytes) ==
    IF Len(bytes) < SizeLen THEN Bad(FormatError("truncated size"))
    ELSE Ok(FromLittleEndian(SubSeq(bytes, 1, SizeLen)))

\* One node at bytes[i..]: [ok, pattern, next]
RECURSIVE ParsePattern(_, _)
RECURSIVE ParseArguments(_, _, _)
ParsePattern(bytes, i) ==
    IF i + 1 > Len(bytes)
    THEN [ok |-> FALSE, pattern |-> NoPattern, next |-> i]
    ELSE IF bytes[i] = TagString
    THEN [ok |-> TRUE, pattern |-> StringPattern(bytes[i + 1]), next |-> i + 2]
    ELSE IF bytes[i] = TagVariable
    THEN [ok |-> TRUE, pattern |-> VariablePattern(bytes[i + 1]), next |-> i + 2]
    ELSE IF bytes[i] = TagComposite /\ i + 2 <= Len(bytes)
    THEN LET r == ParseArguments(bytes, i + 3, bytes[i + 2])
         IN  [ok |-> r.ok,
              pattern |-> IF r.ok THEN CompositePattern(bytes[i + 1], r.patterns)
                          ELSE NoPattern,
              next |-> r.next]
    ELSE [ok |-> FALSE, pattern |-> NoPattern, next |-> i]

ParseArguments(bytes, i, n) ==
    IF n = 0 THEN [ok |-> TRUE, patterns |-> <<>>, next |-> i]
    ELSE LET h == ParsePattern(bytes, i)
         IN  IF ~h.ok THEN [ok |-> FALSE, patterns |-> <<>>, next |-> i]
             ELSE LET t == ParseArguments(bytes, h.next, n - 1)
                  IN  [ok |-> t.ok,
                       patterns |-> IF t.ok THEN <<h.pattern>> \o t.patterns
                                    ELSE <<>>,
                       next |-> t.next]

\* detail::read(begin, end, version): the slice is one pattern body
detail_read(bytes, v) ==
    LET r == ParsePattern(bytes, 1)
    IN  IF r.ok /\ r.next = Len(bytes) + 1 THEN Ok(r.pattern)
        ELSE Bad(FormatError("malformed pattern body"))

\* the versions the whole-buffer deserializer decodes
SupportedVersion(v) ==
    ~VersionLess(v, binary_version(1, 0, 0)) /\ ~VersionLess(current_version, v)

\* deserialize_pattern(begin, end, should_strip_raw_term)
deserialize_pattern(bytes, should_strip_raw_term) ==
    IF Len(bytes) < HeaderLen \/ SubSeq(bytes, 1, HeaderLen) # magic_header
    THEN Bad(FormatError("bad magic header"))
    ELSE LET v == read_version(SubSeq(bytes, HeaderLen + 1,
                                      Min(Len(bytes), HeaderLen + VersionLen)))
         IN
         IF ~v.ok THEN v
         ELSE IF ~SupportedVersion(v.value)
         THEN Bad(FormatError("unsupported version"))
         ELSE IF VersionLess(v.value, binary_version(1, 2, 0))
         THEN \* no size field: the body is the rest of the buffer
              LET t == detail_read(SubSeq(bytes, HeaderLen + VersionLen + 1,
                                          Len(bytes)), v.value)
              IN  IF t.ok /\ should_strip_raw_term
                  THEN Ok(strip_raw_term(t.value)) ELSE t
         ELSE LET s == read_pattern_size_unchecked(
                           SubSeq(bytes, HeaderLen + VersionLen + 1,
                                  Min(Len(bytes), FrameLen)))
              IN
              IF ~s.ok THEN s
              ELSE LET rest == Len(bytes) - FrameLen
                       stop == IF s.value > 0 /\ rest > s.value
                               THEN FrameLen + s.value ELSE Len(bytes)
                       t == detail_read(SubSeq(bytes, FrameLen + 1, stop), v.value)
                   IN  IF t.ok /\ should_strip_raw_term
                       THEN Ok(strip_raw_term(t.value)) ELSE t

DeserializeAlwaysStrips(bytes, strip_raw_term_arg) ==
    deserialize_pattern(bytes, TRUE)

\* Pattern.deserialize(bytes, *, strip_raw_term = true)
deserialize(bytes, strip_raw_term_arg) ==
    deserialize_pattern(bytes, strip_raw_term_arg)

-----------------------------------------------------------------------------
(* What the producer puts into the file: the output of Pattern.serialize,  *)
(* or hand-made framing bytes (a wrong header, another version, an         *)
(* arbitrary size field) in front of a body.                               *)

SerializedFrame(p, e) ==
    [kind |-> "serialized", pattern |-> p, emit_size |-> e,
     header |-> <<>>, version |-> <<>>, size |-> 0, body |-> <<>>]

RawFrame(h, v, s, b) ==
    [kind |-> "raw", pattern |-> NoPattern, emit_size |-> FALSE,
     header |-> h, version |-> v, size |-> s, body |-> b]

SerializedFrames == {SerializedFrame(p, e) : p \in Patterns, e \in BOOLEAN}

\* the magic header, and two headers that differ from it in one byte
RawHeaders == {magic_header, <<127, 75, 79, 82, 70>>, <<0, 75, 79, 82, 69>>}

RawVersions ==
    {binary_version(1, 2, 0), binary_version(1, 1, 0), binary_version(1, 1, 9),
     binary_version(0, 3, 0), binary_version(2, 0, 0), binary_version(1, 2, 1),
     binary_version(-1, 3, 0)}

\* a well-formed body, and one with an unknown tag
RawBodies == {EmitPattern(VariablePattern(2)), <<9, 1>>}

RawFrames ==
    {RawFrame(h, v, s, b) :
        h \in RawHeaders, v \in RawVersions, s \in 0..3, b \in RawBodies}

FrameBytes(f) ==
    IF f.kind = "serialized" THEN serialize(f.pattern, f.emit_size)
    ELSE f.header \o EmitVersion(f.version) \o LittleEndian(f.size, SizeLen)
             \o f.body

AllBytes(fs) == Concat([i \in 1..Len(fs) |-> FrameBytes(fs[i])])

NoVersion == <<>>
NoSize == -1

NotRun ==
    [ran |-> FALSE, strip |-> FALSE, ok |-> FALSE, pattern |-> NoPattern,
     error |-> NoError]

-----------------------------------------------------------------------------
(* The session.                                                            *)

Init ==
    /\ \/ /\ frames = <<>>
          /\ has_read \in BOOLEAN
       \/ /\ frames \in {<<f>> : f \in SerializedFrames \cup RawFrames}
                          \cup {<<a, b>> : a, b \in SerializedFrames}
          /\ has_read = TRUE
    /\ nwritten = 0
    /\ file = <<>>
    /\ pos = 0
    /\ pc = "setup"
    /\ start = 0
    /\ reads = <<>>
    /\ version = NoVersion
    /\ size = NoSize
    /\ result = NoPattern
    /\ error = NoError
    /\ calls = <<>>
    /\ whole = NotRun

\* f.write(...): the producer appends the next frame
Write ==
    /\ pc = "setup"
    /\ nwritten < Len(frames)
    /\ file' = file \o FrameBytes(frames[nwritten + 1])
    /\ nwritten' = nwritten + 1
    /\ UNCHANGED <<frames, has_read, pos, pc, start, reads, version, size,
                   result, error, calls, whole>>

\* f.truncate(k); f.seek(0): the data may end early; reading starts at 0
Rewind ==
    /\ pc = "setup"
    /\ nwritten = Len(frames)
    /\ \E k \in (IF Len(frames) = 1 THEN 0..Len(file) ELSE {Len(file)}) :
           file' = SubSeq(file, 1, k)
    /\ pos' = 0
    /\ pc' = "idle"
    /\ UNCHANGED <<frames, nwritten, has_read, start, reads, version, size,
                   result, error, calls, whole>>

\* the bytes file_like.read(len) returns at the cursor
Read(len) == SubSeq(file, pos + 1, Min(pos + len, Len(file)))

\* the effect of one read(len) on the object and on the call's log
DoRead(len) ==
    /\ pos' = pos + Len(Read(len))
    /\ reads' = Append(reads, [req |-> len, off |-> pos, got |-> Len(Read(len))])

Throw(e) ==
    /\ pc' = "failed"
    /\ error' = e
    /\ result' = NoPattern

\* read_from(file_like) is called: the hasattr check
Call ==
    /\ pc = "idle"
    /\ whole = NotRun
    /\ Len(calls) < MaxCalls
    /\ start' = pos
    /\ IF has_read
       THEN pc' = "header" /\ UNCHANGED <<error, result>>
       ELSE Throw(TypeErrorNotFileLike)
    /\ UNCHANGED <<frames, nwritten, file, has_read, pos, reads, version,
                   size, calls, whole>>

MagicAlwaysMatches(header) == TRUE

\* std::equal(header.begin(), header.end(), ref_header.begin())
MagicMatches(header) ==
    \A i \in 1..Len(header) : header[i] = magic_header[i]

\* auto header = read(5); the header check
ReadHeader ==
    /\ pc = "header"
    /\ DoRead(HeaderLen)
    /\ IF MagicMatches(Read(HeaderLen))
       THEN pc' = "version" /\ UNCHANGED <<error, result>>
       ELSE Throw(BadHeaderError)
    /\ UNCHANGED <<frames, nwritten, file, has_read, start, version, size,
                   calls, whole>>

VersionTooOldMinorOnly(v) == v[2] < 2

\* version < binary_version(1, 2, 0)
VersionTooOld(v) == VersionLess(v, binary_version(1, 2, 0))

\* auto version_bytes = read(6); read_version; the version check
ReadVersion ==
    /\ pc = "version"
    /\ DoRead(VersionLen)
    /\ LET v == read_version(Read(VersionLen))
       IN  IF ~v.ok
           THEN Throw(v.value) /\ UNCHANGED version
           ELSE /\ version' = v.value
                /\ IF VersionTooOld(v.value)
                   THEN Throw(OldVersionError)
                   ELSE pc' = "size" /\ UNCHANGED <<error, result>>
    /\ UNCHANGED <<frames, nwritten, file, has_read, start, size, calls, whole>>

SizeNeverMissing(s) == FALSE

\* size == 0
SizeMissing(s) == s = 0

\* auto size_bytes = read(8); read_pattern_size_unchecked; the size check
ReadSize ==
    /\ pc = "size"
    /\ DoRead(SizeLen)
    /\ LET s == read_pattern_size_unchecked(Read(SizeLen))
       IN  IF ~s.ok
           THEN Throw(s.value) /\ UNCHANGED size
           ELSE /\ size' = s.value
                /\ IF SizeMissing(s.value)
                   THEN Throw(ZeroSizeError)
                   ELSE pc' = "body" /\ UNCHANGED <<error, result>>
    /\ UNCHANGED <<frames, nwritten, file, has_read, start, version, calls,
                   whole>>

BodyLengthOneMore(s) == s + 1

\* the length asked for in read(size)
BodyLength(s) == s

\* kllvm::detail::read(pattern_begin, pattern_bytes.end(), version)
DecodeBody(bytes, v) == detail_read(bytes, v)

\* auto pattern_bytes = read(size); return detail::read(...)
ReadBody ==
    /\ pc = "body"
    /\ DoRead(BodyLength(size))
    /\ LET t == DecodeBody(Read(BodyLength(size)), version)
       IN  IF t.ok
           THEN pc' = "done" /\ result' = t.value /\ UNCHANGED error
           ELSE Throw(t.value)
    /\ UNCHANGED <<frames, nwritten, file, has_read, start, version, size,
                   calls, whole>>

\* the running call, as it will be recorded
Current ==
    [state |-> pc, start |-> start, stop |-> pos, reads |-> reads,
     version |-> version, size |-> size, result |-> result, error |-> error]

\* the call returns, or its exception reaches the caller
Return ==
    /\ pc \in {"done", "failed"}
    /\ calls' = Append(calls, Current)
    /\ pc' = "idle"
    /\ start' = 0
    /\ reads' = <<>>
    /\ version' = NoVersion
    /\ size' = NoSize
    /\ result' = NoPattern
    /\ error' = NoError
    /\ UNCHANGED <<frames, nwritten, file, has_read, pos, whole>>

\* Pattern.deserialize(data, strip_raw_term = s) on the file's whole contents
Deserialize ==
    /\ pc = "idle"
    /\ calls = <<>>
    /\ whole = NotRun
    /\ \E s \in BOOLEAN :
           LET d == deserialize(file, s)
           IN  whole' = [ran |-> TRUE, strip |-> s, ok |-> d.ok,
                         pattern |-> IF d.ok THEN d.value ELSE NoPattern,
                         error |-> IF d.ok THEN NoError ELSE d.value]
    /\ pc' = "end"
    /\ UNCHANGED <<frames, nwritten, file, has_read, pos, start, reads,
                   version, size, result, error, calls>>

Next ==
    \/ Write
    \/ Rewind
    \/ Call
    \/ ReadHeader
    \/ ReadVersion
    \/ ReadSize
    \/ ReadBody
    \/ Return
    \/ Deserialize

Spec == Init /\ [][Next]_vars

-----------------------------------------------------------------------------
(* Views used by the properties.                                           *)

\* the finished calls followed by the running one
AllCalls ==
    calls \o (IF pc \in {"header", "version", "size", "body", "done", "failed"}
              THEN <<Current>> ELSE <<>>)

Requests(c) == [i \in 1..Len(c.reads) |-> c.reads[i].req]

\* every read(n) of the call returned exactly n bytes
Exact(c) == \A i \in 1..Len(c.reads) : c.reads[i].got = c.reads[i].req

\* the bytes a read of the call returned
Returned(r) == SubSeq(file, r.off + 1, r.off + r.got)

\* everything has been written and nothing was cut off
Intact == nwritten = Len(frames) /\ file = AllBytes(frames)

Finished(c) == c.state \in {"done", "failed"}

\* the file holds exactly one frame description's bytes (possibly cut)
OneFrame == Len(frames) = 1 /\ nwritten = 1

OneSerialized == OneFrame /\ frames[1].kind = "serialized"

OneRaw == OneFrame /\ frames[1].kind = "raw"

ValidBody == EmitPattern(VariablePattern(2))

-----------------------------------------------------------------------------
(* C1: with a source whose every read returns exactly the requested number *)
(* of bytes, a successful read_from consumes exactly 5 + 6 + 8 + size      *)
(* bytes, and on two patterns serialized with their size and written back  *)
(* to back, two consecutive read_from calls return the first tree and then *)
(* the second.                                                             *)
C1_ConsumesExactlyItsFrame ==
    /\ \A i \in 1..Len(AllCalls) :
           LET c == AllCalls[i]
           IN  (c.state = "done" /\ Exact(c))
                   => c.stop - c.start = 5 + 6 + 8 + c.size
    /\ (/\ Len(frames) = 2
        /\ frames[1].emit_size
        /\ frames[2].emit_size
        /\ Len(calls) >= 2)
           => /\ calls[1].state = "done"
              /\ calls[1].result = frames[1].pattern
              /\ calls[1].stop = Len(FrameBytes(frames[1]))
              /\ calls[2].state = "done"
              /\ calls[2].result = frames[2].pattern
              /\ calls[2].stop = Len(file)

C1_Witness ==
    /\ Len(frames) = 2
    /\ frames[1].emit_size
    /\ frames[2].emit_size
    /\ frames[1].pattern # frames[2].pattern
    /\ Len(calls) = 2
    /\ calls[2].state = "done"
    /\ Exact(calls[1])
    /\ Exact(calls[2])

(* C2: on the bytes of serialize(p, emit_size = true), read_from returns   *)
(* the same tree as deserialize(bytes) with its default strip_raw_term =   *)
(* true, also when p carries the raw-term wrapper.                         *)
C2_StreamingEqualsDeserialize ==
    (/\ OneSerialized
     /\ frames[1].emit_size
     /\ Intact
     /\ Len(calls) >= 1)
        => LET d == deserialize(file, TRUE)
           IN  /\ d.ok
               /\ calls[1].state = "done"
               /\ calls[1].result = d.value

C4_ShortReadFailsAtOnce ==
    \A i \in 1..Len(AllCalls) :
        LET c == AllCalls[i]
        IN  \A k \in 1..Len(c.reads) :
                c.reads[k].got # c.reads[k].req
                    => /\ k = Len(c.reads)
                       /\ c.state = "failed"
                       /\ c.result = NoPattern

(* C5: when the bytes returned by the first read(5) are not equal to the   *)
(* magic constant, read_from fails, returns no pattern and issues no       *)
(* further read.                                                           *)
C5_WrongHeaderRejected ==
    \A i \in 1..Len(AllCalls) :
        LET c == AllCalls[i]
        IN  (Len(c.reads) >= 1 /\ Returned(c.reads[1]) # magic_header)
                => /\ c.state = "failed"
                   /\ c.result = NoPattern
                   /\ Len(c.reads) = 1
                   /\ c.stop - c.start <= 5

(* C6: a stream with the correct magic header and a version below 1.2.0    *)
(* (major, then minor, then patch) fails read_from with no pattern,        *)
(* whatever follows the version; a version at or above 1.2.0 passes the    *)
(* version check.                                                          *)
C6_VersionGate ==
    (/\ OneRaw
     /\ pc # "setup"
     /\ frames[1].header = magic_header
     /\ Len(file) >= 5 + 6
     /\ Len(AllCalls) >= 1
     /\ Len(AllCalls[1].reads) >= 2)
        => LET c == AllCalls[1]
               v == frames[1].version
               below == \/ v[1] < 1
                        \/ v[1] = 1 /\ v[2] < 2
                        \/ v[1] = 1 /\ v[2] = 2 /\ v[3] < 0
           IN  /\ below => /\ c.state = "failed"
                           /\ c.error = OldVersionError
                           /\ c.result = NoPattern
                           /\ Len(c.reads) = 2
               /\ ~below => /\ c.error # OldVersionError
                            /\ c.version = v
                            /\ Len(c.reads) = 2 => c.state = "size"

C6_Witness ==
    /\ OneRaw
    /\ Intact
    /\ frames[1].header = magic_header
    /\ frames[1].version = binary_version(1, 1, 0)
    /\ frames[1].body = ValidBody
    /\ frames[1].size = Len(ValidBody)
    /\ Len(calls) = 1
    /\ calls[1].error = OldVersionError

(* C7: a stream with the correct magic header, a version at or above 1.2.0 *)
(* and a size field of 0 fails read_from with no pattern, and no read is   *)
(* made after the 8-byte size read.                                        *)
C7_ZeroSizeRejected ==
    (/\ OneRaw
     /\ pc # "setup"
     /\ frames[1].header = magic_header
     /\ ~VersionLess(frames[1].version, binary_version(1, 2, 0))
     /\ frames[1].size = 0
     /\ Len(file) >= 5 + 6 + 8
     /\ Len(AllCalls) >= 1
     /\ Len(AllCalls[1].reads) >= 3)
        => LET c == AllCalls[1]
           IN  /\ c.state = "failed"
               /\ c.error = ZeroSizeError
               /\ c.result = NoPattern
               /\ Requests(c) = <<5, 6, 8>>

C7_Witness ==
    /\ OneRaw
    /\ Intact
    /\ frames[1].header = magic_header
    /\ frames[1].version = binary_version(2, 0, 0)
    /\ frames[1].size = 0
    /\ frames[1].body = ValidBody
    /\ Len(calls) = 1
    /\ calls[1].error = ZeroSizeError

(* C8: the size field of serialize(p, emit_size = true) is the number of   *)
(* body bytes after the 19 framing bytes; with emit_size = false it stays  *)
(* 0 and the body is the same; read_from accepts serialize(p, emit_size =  *)
(* e) exactly when e is true.                                              *)
C8_SizeFieldIsBodyLength ==
    (OneSerialized /\ Intact)
        => LET f == frames[1]
               field == SubSeq(file, 12, 19)
           IN  /\ f.emit_size =>
                      /\ FromLittleEndian(field) = Len(file) - 19
                      /\ Len(file) > 19
               /\ ~f.emit_size =>
                      /\ field = <<0, 0, 0, 0, 0, 0, 0, 0>>
                      /\ SubSeq(file, 20, Len(file))
                             = SubSeq(serialize(f.pattern, TRUE), 20,
                                      Len(serialize(f.pattern, TRUE)))
               /\ Len(calls) >= 1 =>
                      /\ calls[1].state = "done" <=> f.emit_size
                      /\ ~f.emit_size => calls[1].error = ZeroSizeError

C8_Witness ==
    /\ OneSerialized
    /\ Intact
    /\ ~frames[1].emit_size
    /\ frames[1].pattern.kind = "composite"
    /\ Len(calls) = 1
    /\ calls[1].error = ZeroSizeError

\* the three failures read_from itself detects
FramingErrors == {BadHeaderError, OldVersionError, ZeroSizeError}

C10_ReadsInProtocolOrder ==
    /\ \A i \in 1..Len(AllCalls) :
           LET c == AllCalls[i]
               n == Len(c.reads)
           IN  /\ n <= 4
               /\ IsPrefix(SubSeq(Requests(c), 1, Min(n, 3)), <<5, 6, 8>>)
               /\ n = 4 => c.size # NoSize /\ c.reads[4].req = c.size
               /\ \A k \in 1..n :
                      c.reads[k].off =
                          (IF k = 1 THEN c.start
                           ELSE c.reads[k - 1].off + c.reads[k - 1].got)
               /\ c.stop = (IF n = 0 THEN c.start
                            ELSE c.reads[n].off + c.reads[n].got)
               /\ c.state = "header" => n = 0
               /\ c.state = "version" => n = 1
               /\ c.state = "size" => n = 2
               /\ c.state = "body" => n = 3
               /\ c.state = "done" => n = 4
               /\ c.error = TypeErrorNotFileLike => n = 0
               /\ c.error = BadHeaderError => n = 1
               /\ c.error = OldVersionError => n = 2
               /\ c.error = ZeroSizeError => n = 3
    /\ (OneRaw /\ Intact /\ Len(AllCalls) >= 1 /\ Finished(AllCalls[1])) =>
           LET c == AllCalls[1]
               f == frames[1]
               old == VersionLess(f.version, binary_version(1, 2, 0))
           IN  /\ f.header # magic_header =>
                      c.error = BadHeaderError /\ c.stop = 5
               /\ (f.header = magic_header /\ old) =>
                      c.error = OldVersionError /\ c.stop = 11
               /\ (f.header = magic_header /\ ~old /\ f.size = 0) =>
                      c.error = ZeroSizeError /\ c.stop = 19

C10_Witness ==
    /\ OneRaw
    /\ Intact
    /\ frames[1].header # magic_header
    /\ frames[1].version = binary_version(1, 1, 0)
    /\ frames[1].size = 0
    /\ Len(calls) = 1
    /\ calls[1].error = BadHeaderError
    /\ calls[1].stop = 5

====
